---- MODULE Spec2Model ----
(***************************************************************************)
(* UUIDv7 generator (src/src/uuid7.c): the lock-free allocation of         *)
(* (millisecond, sequence) pairs on the 64-bit register g_v7_state, the    *)
(* atomically swappable RNG pointer g_uuid_rng_ptr and the 16-byte         *)
(* encoder; and the other builds of the generator kept in the repository:  *)
(* uuid_v7 with fill_random, the zero-start uuid_gen and the libsodium     *)
(* uuid_gen, which share the register's packing.                           *)
(*                                                                         *)
(* A uint64_t is a tuple of four 16-bit limbs, most significant first, so  *)
(* that shifts, masks, comparison and wrap-around are those of the C       *)
(* unsigned 64-bit type.                                                   *)
(***************************************************************************)
EXTENDS Integers, Sequences, FiniteSets, TLC

----------------------------------------------------------------------------
(* uint64_t arithmetic on limbs <<a, b, c, d>> = a*2^48 + b*2^32 + c*2^16 + d *)

Limb == 2^16

U64Zero == <<0, 0, 0, 0>>

U64Max == <<Limb - 1, Limb - 1, Limb - 1, Limb - 1>>

\* x < y for uint64_t
Lt64(x, y) ==
    \/ x[1] < y[1]
    \/ x[1] = y[1] /\ x[2] < y[2]
    \/ x[1] = y[1] /\ x[2] = y[2] /\ x[3] < y[3]
    \/ x[1] = y[1] /\ x[2] = y[2] /\ x[3] = y[3] /\ x[4] < y[4]

\* x <= y for uint64_t
Le64(x, y) == x = y \/ Lt64(x, y)

\* x + 1ull, wrapping at 2^64
Inc64(x) ==
    IF x[4] + 1 < Limb THEN <<x[1], x[2], x[3], x[4] + 1>>
    ELSE IF x[3] + 1 < Limb THEN <<x[1], x[2], x[3] + 1, 0>>
    ELSE IF x[2] + 1 < Limb THEN <<x[1], x[2] + 1, 0, 0>>
    ELSE IF x[1] + 1 < Limb THEN <<x[1] + 1, 0, 0, 0>>
    ELSE U64Zero

\* x - 1ull, wrapping at 0
Dec64(x) ==
    IF x[4] > 0 THEN <<x[1], x[2], x[3], x[4] - 1>>
    ELSE IF x[3] > 0 THEN <<x[1], x[2], x[3] - 1, Limb - 1>>
    ELSE IF x[2] > 0 THEN <<x[1], x[2] - 1, Limb - 1, Limb - 1>>
    ELSE IF x[1] > 0 THEN <<x[1] - 1, Limb - 1, Limb - 1, Limb - 1>>
    ELSE U64Max

\* x << 12 on uint64_t: the top 12 bits fall off
Shl12(x) ==
    << (x[1] % 16) * 4096 + (x[2] \div 16),
       (x[2] % 16) * 4096 + (x[3] \div 16),
       (x[3] % 16) * 4096 + (x[4] \div 16),
       (x[4] % 16) * 4096 >>

\* x >> 12 on uint64_t
Shr12(x) ==
    << x[1] \div 4096,
       (x[1] % 4096) * 16 + (x[2] \div 4096),
       (x[2] % 4096) * 16 + (x[3] \div 4096),
       (x[3] % 4096) * 16 + (x[4] \div 4096) >>

----------------------------------------------------------------------------
(* Packing helpers *)

V7_SEQ_BITS == 12

V7_SEQ_MASK == 2^V7_SEQ_BITS - 1

\* (((uint64_t)(ms) << V7_MS_SHIFT) | ((uint64_t)(seq) & V7_SEQ_MASK))
V7_PACK(ms, seq) ==
    LET s == Shl12(ms) IN <<s[1], s[2], s[3], s[4] + (seq % (V7_SEQ_MASK + 1))>>

\* ((uint64_t)(word) >> V7_MS_SHIFT)
V7_UNPACK_MS(word) == Shr12(word)

\* a variant of the sequence field that is the uint16_t cast without the mask
V7_UNPACK_SEQ_cast(word) == word[4]

\* ((uint16_t)((word) & V7_SEQ_MASK))
V7_UNPACK_SEQ(word) == word[4] % (V7_SEQ_MASK + 1)

\* the n'th byte of the 48-bit ms (n in 0..5, 0 is most significant)
V7_MS_BYTE(ms, n) ==
    LET limb == ms[2 + (n \div 2)]
    IN  IF n % 2 = 0 THEN limb \div 256 ELSE limb % 256

(* Byte-level masks and sizes *)

V7_RB_BYTES == 8

V7_MS_BYTES == 6

V7_UUID_BYTES == 16

\* x & 0x0F, x & 0x3F, x & 0xFF on small unsigned values
V7_SEQ_HIGH_MASK(x) == x % 16

V7_RB0_LOW6_MASK(x) == x % 64

V7_BYTE_MASK(x) == x % 256

V7_SEQ_LOW_MASK(x) == x % 256

V7_VARIANT_TOP == 128

----------------------------------------------------------------------------
(* Bounds of the model *)

\* uuid7_gen calls started in a behaviour
MaxCalls == 2

\* distance in ms between the two values the wall clock is sampled at
ClockStep == 1

Threads == {"t1", "t2"}

\* threads are interchangeable: this one has started at least as many calls
\* as the other
FirstCaller == "t1"

\* values of the RNG pointer: 0 (not set), the built-in RNG, a caller's RNG
NULL == "NULL"

DEFAULT_RNG == "_default_rng"

\* no fill has called a function yet
NOCALL == "none"

\* the sources the generator is built from: the module with the swappable
\* RNG, the uuid_v4/uuid_v7 file, the zero-start uuid_gen, and the libsodium
\* uuid_gen that the build script writes
UUID7_C == "src/uuid7.c"

UUID_V7_C == "uuid_v7"

UUID_GEN_C == "app/src/utils/uuid.c"

UUID_GEN_SODIUM == "utils/build_libs.sh"

\* the two builds of uuid_gen
GenBuilds == {UUID_GEN_C, UUID_GEN_SODIUM}

CustomRngs == {"scripted_rng"}

RngPtrs == {NULL, DEFAULT_RNG} \cup CustomRngs

\* the caller's buffer argument: absent, or 16 bytes
BUF == "buf"

\* 2026-ish wall clock, in ms since the epoch (about 2^40.6)
ClockStart == <<0, 400, 0, 0>>

\* a wall clock at the edge of the 48-bit field of the identifier: 2^48 - 1
ClockStartWide == <<0, Limb - 1, Limb - 1, Limb - 1>>

\* two bytes a provider may write into a uint16_t (little-endian in memory)
RndDraws == {<<0, 0>>, <<255, 255>>}

\* eight bytes a provider may write into rb: the first has other top bits than
\* the variant, the rest are those of the tests' script
RbDraws == {<<127, 188, 205, 222, 239, 1, 35, 69>>}

\* what the uninitialised rb may hold before it is filled
RbStack == RbDraws \cup {<<0, 0, 0, 0, 0, 0, 0, 0>>}

\* a caller's buffer before the call: 16 bytes not yet written (-1)
FreshBuf == [i \in 0..(V7_UUID_BYTES - 1) |-> -1]

----------------------------------------------------------------------------
VARIABLES
    epoch,          \* the earliest value CLOCK_REALTIME takes, in ms
    os_entropy,     \* getrandom(2) and /dev/urandom deliver every byte asked for
    g_v7_state,     \* static _Atomic uint64_t g_v7_state
    g_uuid_rng_ptr, \* static _Atomic uintptr_t g_uuid_rng_ptr
    pc,             \* per thread: where it is
    ret,            \* per thread: the last return value of uuid7_gen
    out,            \* per thread: the caller's 16-byte buffer
    prev, use_ms, candidate, seq12, \* locals of uuid7_gen
    site,           \* per thread: which _fill_random call is running
    fn,             \* per thread: local fn of _fill_random
    commits,        \* history: successful CAS operations, in order
    mine,           \* history, per thread: index in commits of this call's CAS
    iters,          \* history, per thread: loop iterations this call has begun
    drawn,          \* history, per thread: bytes of the sequence samples this
                    \* call has asked a provider for, before the tail
    tail,           \* history, per thread: the 8 bytes of rb after its fill
    issued,         \* history: identifiers returned, in order of return
    begun,          \* history, per thread: Len(issued) when this call began
    lastcfg,        \* history: the last configuration call, its argument and its
                    \* return value
    init_expected,  \* history: what the exchange of the last configuration call
                    \* left in uuid7_init's local expected (0 when it has none)
    lastcall,       \* history: the function the most recent fill called since
                    \* the last configuration call
    short,          \* history, per thread: a fill of this call returned with
                    \* bytes missing
    ncalls,         \* per thread: calls of the generator started so far
    spurious,       \* the weak exchange has failed spuriously (it does so at most
                    \* once in a behaviour)
    build,          \* the source file the generator of this process was built
                    \* from
    clock,          \* the other builds: the value CLOCK_REALTIME has now, in ms
    last_id,        \* uuid_v7: static uint8_t last_id[UUID_BYTES_SIZE]
    now_ms, next_seq, \* the other builds: locals of uuid_v7 and uuid_gen
    arg,            \* the other builds, per thread: the pointer the call was given
    source          \* history, per thread: what filled rb in fill_random

shared == <<g_v7_state, g_uuid_rng_ptr>>

frame == <<prev, use_ms, candidate, seq12, site, fn>>

hist == <<commits, mine, iters, drawn, tail, issued, begun, short>>

cfg == <<lastcfg, init_expected>>

counters == <<ncalls, spurious>>

\* state of the builds of the generator other than uuid7.c
other == <<build, clock, last_id, now_ms, next_seq, arg, source>>

env == <<epoch, os_entropy, other>>

vars == <<env, shared, pc, ret, out, frame, hist, cfg, lastcall, counters>>

\* uuid7_gen calls started so far
started == ncalls["t1"] + ncalls["t2"]

\* the locals and the histories before the first call
InitFrames ==
    /\ g_uuid_rng_ptr = NULL
    /\ pc = [t \in Threads |-> "idle"]
    /\ ret = [t \in Threads |-> 0]
    /\ out = [t \in Threads |-> FreshBuf]
    /\ prev = [t \in Threads |-> U64Zero]
    /\ use_ms = [t \in Threads |-> U64Zero]
    /\ candidate = [t \in Threads |-> U64Zero]
    /\ seq12 = [t \in Threads |-> 0]
    /\ site = [t \in Threads |-> "rnd"]
    /\ fn = [t \in Threads |-> NULL]
    /\ commits = <<>>
    /\ mine = [t \in Threads |-> 0]
    /\ iters = [t \in Threads |-> 0]
    /\ drawn = [t \in Threads |-> 0]
    /\ tail = [t \in Threads |-> <<>>]
    /\ issued = <<>>
    /\ begun = [t \in Threads |-> 0]
    /\ lastcfg = <<>>
    /\ init_expected = NULL
    /\ lastcall = NOCALL
    /\ short = [t \in Threads |-> FALSE]
    /\ ncalls = [t \in Threads |-> 0]
    /\ spurious = FALSE
    /\ last_id = [i \in 0..(V7_UUID_BYTES - 1) |-> 0]
    /\ now_ms = [t \in Threads |-> U64Zero]
    /\ next_seq = [t \in Threads |-> 0]
    /\ arg = [t \in Threads |-> BUF]
    /\ source = [t \in Threads |-> NOCALL]

InitCommon ==
    /\ g_v7_state = U64Zero
    /\ build = UUID7_C
    /\ clock = U64Zero
    /\ InitFrames

Init == InitCommon /\ epoch = ClockStart /\ os_entropy = TRUE

InitWide == InitCommon /\ epoch = ClockStartWide /\ os_entropy = TRUE

\* the entropy sources of the system may fail
InitEntropy == InitCommon /\ epoch = ClockStart /\ os_entropy = FALSE

----------------------------------------------------------------------------
(* The wall clock: CLOCK_REALTIME advances and may be stepped back at any    *)
(* time, so a sample is either of two values, in any order and any number   *)
(* of times. The clock is no shared variable of the program: a call's       *)
(* sample is drawn in the step that first uses it.                           *)

RECURSIVE AddN(_, _)
AddN(x, n) == IF n = 0 THEN x ELSE AddN(Inc64(x), n - 1)

\* _realtime_ms(): the values a call may return
realtime_ms == {epoch, AddN(epoch, ClockStep)}

----------------------------------------------------------------------------
(* uuid7_gen *)

\* a variant of the entry without the argument check: the loop is entered
\* whatever the buffer is
uuid7_gen_unchecked(t, o) ==
    /\ pc[t] = "idle"
    /\ started < MaxCalls
    /\ t = FirstCaller \/ ncalls[t] < ncalls[FirstCaller]
    /\ ncalls' = [ncalls EXCEPT ![t] = @ + 1]
    /\ pc' = [pc EXCEPT ![t] = "L187"]
    /\ out' = [out EXCEPT ![t] = FreshBuf]
    /\ mine' = [mine EXCEPT ![t] = 0]
    /\ iters' = [iters EXCEPT ![t] = 0]
    /\ drawn' = [drawn EXCEPT ![t] = 0]
    /\ tail' = [tail EXCEPT ![t] = <<>>]
    /\ begun' = [begun EXCEPT ![t] = Len(issued)]
    /\ short' = [short EXCEPT ![t] = FALSE]
    /\ UNCHANGED <<ret, frame, commits, issued>>
    /\ UNCHANGED <<env, shared, cfg, lastcall, spurious>>

\* entry: if(!out) return -1; otherwise enter the loop
uuid7_gen(t, o) ==
    /\ pc[t] = "idle"
    /\ started < MaxCalls
    /\ t = FirstCaller \/ ncalls[t] < ncalls[FirstCaller]
    /\ ncalls' = [ncalls EXCEPT ![t] = @ + 1]
    /\ IF o = NULL
       THEN /\ ret' = [ret EXCEPT ![t] = -1]
            /\ UNCHANGED <<pc, out, frame, hist>>
       ELSE /\ pc' = [pc EXCEPT ![t] = "L187"]
            /\ out' = [out EXCEPT ![t] = FreshBuf]
            /\ mine' = [mine EXCEPT ![t] = 0]
            /\ iters' = [iters EXCEPT ![t] = 0]
            /\ drawn' = [drawn EXCEPT ![t] = 0]
            /\ tail' = [tail EXCEPT ![t] = <<>>]
            /\ begun' = [begun EXCEPT ![t] = Len(issued)]
            /\ short' = [short EXCEPT ![t] = FALSE]
            /\ UNCHANGED <<ret, frame, commits, issued>>
    /\ UNCHANGED <<env, shared, cfg, lastcall, spurious>>

\* use_ms = (now_ms >= prev_ms) ? now_ms : prev_ms;
clamp(now, prev_ms) == IF Le64(prev_ms, now) THEN now ELSE prev_ms

\* prev = atomic_load(&g_v7_state); then _fill_random(&rnd, 2)
gen_load_state(t) ==
    /\ pc[t] = "L187"
    /\ prev' = [prev EXCEPT ![t] = g_v7_state]
    /\ site' = [site EXCEPT ![t] = "rnd"]
    /\ pc' = [pc EXCEPT ![t] = "fr_load"]
    /\ iters' = [iters EXCEPT ![t] = @ + 1]
    /\ UNCHANGED <<env, shared, ret, out, use_ms, candidate, seq12, fn,
                   commits, mine, drawn, tail, issued, begun, short, cfg,
                   lastcall, counters>>

\* a variant of the sample that keeps a zero
sample12_raw(bytes) == (bytes[1] + 256 * bytes[2]) % (V7_SEQ_MASK + 1)

\* the uint16_t a provider's two bytes make; rnd &= V7_SEQ_MASK; if(rnd == 0u) rnd = 1u;
sample12(bytes) ==
    LET raw == bytes[1] + 256 * bytes[2]
        r == raw % (V7_SEQ_MASK + 1)
    IN  IF r = 0 THEN 1 ELSE r

\* a variant of the candidate that is never compared with the register
first_candidate_unchecked(use, p, rnd) == V7_PACK(use, rnd)

\* a variant of the candidate that repeats the register instead of stepping it
first_candidate_repeat(use, p, rnd) ==
    LET c == V7_PACK(use, rnd) IN
    IF Le64(c, p)
    THEN IF V7_UNPACK_SEQ(p) # V7_SEQ_MASK THEN p ELSE "overflow"
    ELSE c

\* a variant of the candidate that takes a second sample whenever the first
\* does not pass the register
first_candidate_resample(use, p, rnd) ==
    LET c == V7_PACK(use, rnd) IN
    IF Le64(c, p) THEN "overflow" ELSE c

\* the candidate of an iteration whose first sample is rnd, or "overflow" when
\* the second sample is needed
first_candidate(use, p, rnd) ==
    LET c == V7_PACK(use, rnd) IN
    IF Le64(c, p)
    THEN IF V7_UNPACK_SEQ(p) # V7_SEQ_MASK THEN Inc64(p) ELSE "overflow"
    ELSE c

\* Overflow: next_ms = prev_ms + 1; candidate = V7_PACK(next_ms, rnd2)
overflow_candidate(p, rnd2) == V7_PACK(Inc64(V7_UNPACK_MS(p)), rnd2)

\* a variant of the encoding without the version and variant bits
encode_plain(ms, seq, rb) ==
    [i \in 0..(V7_UUID_BYTES - 1) |->
        IF i < V7_MS_BYTES THEN V7_MS_BYTE(ms, i)
        ELSE IF i = 6 THEN V7_BYTE_MASK(seq \div 256)
        ELSE IF i = 7 THEN V7_SEQ_LOW_MASK(seq)
        ELSE rb[i - 7]]

\* a variant of the encoding with the timestamp bytes in little-endian order
encode_le(ms, seq, rb) ==
    [i \in 0..(V7_UUID_BYTES - 1) |->
        IF i < V7_MS_BYTES THEN V7_MS_BYTE(ms, V7_MS_BYTES - 1 - i)
        ELSE IF i = 6 THEN V7_BYTE_MASK(7) * 16 + V7_SEQ_HIGH_MASK(seq \div 256)
        ELSE IF i = 7 THEN V7_SEQ_LOW_MASK(seq)
        ELSE IF i = 8 THEN V7_RB0_LOW6_MASK(rb[1]) + V7_VARIANT_TOP
        ELSE rb[i - 7]]

\* the 16 output bytes from (use_ms, seq12, rb)
encode(ms, seq, rb) ==
    [i \in 0..(V7_UUID_BYTES - 1) |->
        IF i < V7_MS_BYTES THEN V7_MS_BYTE(ms, i)
        ELSE IF i = 6 THEN V7_BYTE_MASK(7) * 16 + V7_SEQ_HIGH_MASK(seq \div 256)
        ELSE IF i = 7 THEN V7_SEQ_LOW_MASK(seq)
        ELSE IF i = 8 THEN V7_RB0_LOW6_MASK(rb[1]) + V7_VARIANT_TOP
        ELSE rb[i - 7]]

\* the first 8 bytes of an identifier
prefix8(id) == [i \in 0..7 |-> id[i]]

----------------------------------------------------------------------------
(* _fill_random *)

\* fn(buf, n) for the sequence sample of an iteration: on to the CAS, or to
\* the second sample
call_rnd(t, now, bytes) ==
    LET use == clamp(now, V7_UNPACK_MS(prev[t]))
        c == first_candidate(use, prev[t], sample12(bytes))
    IN
    /\ drawn' = [drawn EXCEPT ![t] = @ + Len(bytes)]
    /\ IF c = "overflow"
       THEN /\ site' = [site EXCEPT ![t] = "rnd2"]
            /\ pc' = [pc EXCEPT ![t] = "fr_load"]
            /\ UNCHANGED candidate
       ELSE /\ candidate' = [candidate EXCEPT ![t] = c]
            /\ pc' = [pc EXCEPT ![t] = "L223"]
            /\ UNCHANGED site
    /\ UNCHANGED <<ret, out, prev, use_ms, seq12, commits, mine, iters, tail,
                   issued, begun>>

\* fn(buf, n) for the second sample, in the overflow branch
call_rnd2(t, bytes) ==
    /\ drawn' = [drawn EXCEPT ![t] = @ + Len(bytes)]
    /\ candidate' = [candidate EXCEPT ![t] =
                        overflow_candidate(prev[t], sample12(bytes))]
    /\ pc' = [pc EXCEPT ![t] = "L223"]
    /\ UNCHANGED <<ret, out, prev, use_ms, seq12, site, commits, mine, iters,
                   tail, issued, begun>>

\* fn(buf, n) for rb, then the 16 bytes are written and the call returns 0
call_rb(t, bytes) ==
    /\ out' = [out EXCEPT ![t] = encode(use_ms[t], seq12[t], bytes)]
    /\ ret' = [ret EXCEPT ![t] = 0]
    /\ tail' = [tail EXCEPT ![t] = bytes]
    /\ issued' = Append(issued,
            [key |-> prefix8(encode(use_ms[t], seq12[t], bytes)),
             begun |-> begun[t]])
    /\ pc' = [pc EXCEPT ![t] = "idle"]
    /\ prev' = [prev EXCEPT ![t] = U64Zero]
    /\ use_ms' = [use_ms EXCEPT ![t] = U64Zero]
    /\ candidate' = [candidate EXCEPT ![t] = U64Zero]
    /\ seq12' = [seq12 EXCEPT ![t] = 0]
    /\ site' = [site EXCEPT ![t] = "rnd"]
    /\ begun' = [begun EXCEPT ![t] = 0]
    /\ UNCHANGED <<commits, mine, iters, drawn>>

\* what a buffer holds after fn(buf, n), and whether fn wrote all n bytes: a
\* provider delivers them; _default_rng may return with bytes missing, and
\* the buffer then holds what it held before
provider_fill(f, delivered, before) ==
    {[bytes |-> b, full |-> TRUE] : b \in delivered}
    \cup (IF f = DEFAULT_RNG /\ ~os_entropy
          THEN {[bytes |-> b, full |-> FALSE] : b \in before}
          ELSE {})

\* fn(buf, n) with fn = f: the caller goes on with the buffer up to its next
\* access to shared state
fill_call(t, f) ==
    /\ lastcall' = f
    /\ IF site[t] = "rnd"
       THEN \E now \in realtime_ms :
            \E r \in provider_fill(f, RndDraws, {<<0, 0>>}) :
                /\ call_rnd(t, now, r.bytes)
                /\ short' = [short EXCEPT ![t] = @ \/ ~r.full]
       ELSE IF site[t] = "rnd2"
       THEN \E r \in provider_fill(f, RndDraws, {<<0, 0>>}) :
                /\ call_rnd2(t, r.bytes)
                /\ short' = [short EXCEPT ![t] = @ \/ ~r.full]
       ELSE \E r \in provider_fill(f, RbDraws, RbStack) :
                /\ call_rb(t, r.bytes)
                /\ short' = [short EXCEPT ![t] = @ \/ ~r.full]

\* uuid_rng_fn_t fn = load_uuid_rng(); a pointer that is set is called
fill_load(t) ==
    /\ pc[t] = "fr_load"
    /\ fn' = [fn EXCEPT ![t] = g_uuid_rng_ptr]
    /\ IF g_uuid_rng_ptr = NULL
       THEN /\ pc' = [pc EXCEPT ![t] = "fr_cas"]
            /\ UNCHANGED <<ret, out, prev, use_ms, candidate, seq12, site,
                           hist, lastcall>>
       ELSE fill_call(t, g_uuid_rng_ptr)
    /\ UNCHANGED <<env, shared, cfg, counters>>

\* a variant of the lazy installation whose exchange stores nothing
fill_install_skip(t) ==
    /\ pc[t] = "fr_cas"
    /\ pc' = [pc EXCEPT ![t] = "fr_reload"]
    /\ UNCHANGED <<env, shared, ret, out, frame, hist, cfg, lastcall,
                   counters>>

\* a variant of the lazy installation that stores without comparing
fill_install_force(t) ==
    /\ pc[t] = "fr_cas"
    /\ g_uuid_rng_ptr' = DEFAULT_RNG
    /\ pc' = [pc EXCEPT ![t] = "fr_reload"]
    /\ UNCHANGED <<env, g_v7_state, ret, out, frame, hist, cfg, lastcall,
                   counters>>

\* atomic_compare_exchange_strong(&g_uuid_rng_ptr, &expected(0), _default_rng)
fill_install(t) ==
    /\ pc[t] = "fr_cas"
    /\ g_uuid_rng_ptr' = IF g_uuid_rng_ptr = NULL THEN DEFAULT_RNG ELSE g_uuid_rng_ptr
    /\ pc' = [pc EXCEPT ![t] = "fr_reload"]
    /\ UNCHANGED <<env, g_v7_state, ret, out, frame, hist, cfg, lastcall,
                   counters>>

\* a variant of the second load that calls the built-in RNG without loading
fill_reload_default(t) ==
    /\ pc[t] = "fr_reload"
    /\ fn' = [fn EXCEPT ![t] = DEFAULT_RNG]
    /\ fill_call(t, DEFAULT_RNG)
    /\ UNCHANGED <<env, shared, cfg, counters>>

\* fn = load_uuid_rng(); if(!fn) fn = _default_rng; fn(buf, n);
fill_reload(t) ==
    /\ pc[t] = "fr_reload"
    /\ fn' = [fn EXCEPT ![t] = IF g_uuid_rng_ptr = NULL THEN DEFAULT_RNG
                                ELSE g_uuid_rng_ptr]
    /\ fill_call(t, IF g_uuid_rng_ptr = NULL THEN DEFAULT_RNG ELSE g_uuid_rng_ptr)
    /\ UNCHANGED <<env, shared, cfg, counters>>

----------------------------------------------------------------------------
(* atomic_compare_exchange_weak_explicit(&g_v7_state, &prev, candidate, ...) *)

\* a variant of the exchange that stores without comparing
cas_unconditional(t) ==
    /\ pc[t] = "L223"
    /\ g_v7_state' = candidate[t]
    /\ seq12' = [seq12 EXCEPT ![t] = V7_UNPACK_SEQ(candidate[t])]
    /\ use_ms' = [use_ms EXCEPT ![t] = V7_UNPACK_MS(candidate[t])]
    /\ commits' = Append(commits, [w |-> candidate[t], read |-> prev[t]])
    /\ mine' = [mine EXCEPT ![t] = Len(commits) + 1]
    /\ site' = [site EXCEPT ![t] = "rb"]
    /\ pc' = [pc EXCEPT ![t] = "fr_load"]
    /\ UNCHANGED <<env, g_uuid_rng_ptr, ret, out, prev, candidate, fn,
                   iters, drawn, tail, issued, begun, short, cfg, lastcall,
                   counters>>

\* the exchange succeeds: this call owns the candidate; go on to the tail
cas_success(t) ==
    /\ pc[t] = "L223"
    /\ g_v7_state = prev[t]
    /\ g_v7_state' = candidate[t]
    /\ seq12' = [seq12 EXCEPT ![t] = V7_UNPACK_SEQ(candidate[t])]
    /\ use_ms' = [use_ms EXCEPT ![t] = V7_UNPACK_MS(candidate[t])]
    /\ commits' = Append(commits, [w |-> candidate[t], read |-> prev[t]])
    /\ mine' = [mine EXCEPT ![t] = Len(commits) + 1]
    /\ site' = [site EXCEPT ![t] = "rb"]
    /\ pc' = [pc EXCEPT ![t] = "fr_load"]
    /\ UNCHANGED <<env, g_uuid_rng_ptr, ret, out, prev, candidate, fn,
                   iters, drawn, tail, issued, begun, short, cfg, lastcall,
                   counters>>

\* a variant of the failing exchange that may fail at any time
cas_failure_any(t) ==
    /\ pc[t] = "L223"
    /\ prev' = [prev EXCEPT ![t] = g_v7_state]
    /\ pc' = [pc EXCEPT ![t] = "L187"]
    /\ UNCHANGED <<env, shared, ret, out, use_ms, candidate, seq12,
                   site, fn, hist, cfg, lastcall, counters>>

\* the exchange fails (the register moved, or the weak form failed spuriously):
\* prev receives the register's value and the loop starts over
cas_failure(t) ==
    /\ pc[t] = "L223"
    /\ \/ g_v7_state # prev[t] /\ UNCHANGED spurious
       \/ g_v7_state = prev[t] /\ ~spurious /\ spurious' = TRUE
    /\ prev' = [prev EXCEPT ![t] = g_v7_state]
    /\ pc' = [pc EXCEPT ![t] = "L187"]
    /\ UNCHANGED <<env, shared, ret, out, use_ms, candidate, seq12,
                   site, fn, hist, cfg, lastcall, ncalls>>

----------------------------------------------------------------------------
(* Configuration of the RNG pointer, by any other thread of the application *)

\* a variant of the configuration that leaves the pointer alone when fn is 0
uuid7_set_rng_keep(f) ==
    /\ g_uuid_rng_ptr' = IF f # NULL THEN f ELSE g_uuid_rng_ptr
    /\ lastcfg' = <<"uuid7_set_rng", f, 0>>
    /\ init_expected' = NULL
    /\ lastcall' = NOCALL
    /\ UNCHANGED <<env, g_v7_state, pc, ret, out, frame, hist, counters>>

\* store_uuid_rng(fn ? fn : _default_rng); return 0;
uuid7_set_rng(f) ==
    /\ g_uuid_rng_ptr' = IF f # NULL THEN f ELSE DEFAULT_RNG
    /\ lastcfg' = <<"uuid7_set_rng", f, 0>>
    /\ init_expected' = NULL
    /\ lastcall' = NOCALL
    /\ UNCHANGED <<env, g_v7_state, pc, ret, out, frame, hist, counters>>

\* a variant of the initialisation that stores the built-in RNG when fn is 0
uuid7_init_store(f) ==
    /\ g_uuid_rng_ptr' = IF f # NULL THEN f ELSE DEFAULT_RNG
    /\ lastcfg' = <<"uuid7_init", f, 0>>
    /\ init_expected' = NULL
    /\ lastcall' = NOCALL
    /\ UNCHANGED <<env, g_v7_state, pc, ret, out, frame, hist, counters>>

\* a variant of the initialisation that installs nothing when fn is 0
uuid7_init_noop(f) ==
    /\ g_uuid_rng_ptr' = IF f # NULL THEN f ELSE g_uuid_rng_ptr
    /\ lastcfg' = <<"uuid7_init", f, 0>>
    /\ init_expected' = IF f # NULL THEN NULL ELSE g_uuid_rng_ptr
    /\ lastcall' = NOCALL
    /\ UNCHANGED <<env, g_v7_state, pc, ret, out, frame, hist, counters>>

\* a variant of the initialisation that never replaces a provider
uuid7_init_once(f) ==
    /\ g_uuid_rng_ptr' = IF g_uuid_rng_ptr # NULL THEN g_uuid_rng_ptr
                         ELSE IF f # NULL THEN f ELSE DEFAULT_RNG
    /\ lastcfg' = <<"uuid7_init", f, 0>>
    /\ init_expected' = IF f # NULL THEN NULL ELSE g_uuid_rng_ptr
    /\ lastcall' = NOCALL
    /\ UNCHANGED <<env, g_v7_state, pc, ret, out, frame, hist, counters>>

\* if(fn) store_uuid_rng(fn); else compare-exchange 0 -> _default_rng; return 0;
uuid7_init(f) ==
    /\ g_uuid_rng_ptr' = IF f # NULL THEN f
                         ELSE IF g_uuid_rng_ptr = NULL THEN DEFAULT_RNG
                         ELSE g_uuid_rng_ptr
    /\ lastcfg' = <<"uuid7_init", f, 0>>
    /\ init_expected' = IF f # NULL THEN NULL ELSE g_uuid_rng_ptr
    /\ lastcall' = NOCALL
    /\ UNCHANGED <<env, g_v7_state, pc, ret, out, frame, hist, counters>>

----------------------------------------------------------------------------
Next ==
    \/ \E t \in Threads :
        \/ \E o \in {NULL, BUF} : uuid7_gen(t, o)
        \/ gen_load_state(t)
        \/ fill_load(t)
        \/ fill_install(t)
        \/ fill_reload(t)
        \/ cas_success(t)
        \/ cas_failure(t)
    \/ \E f \in {NULL} \cup CustomRngs : uuid7_set_rng(f)
    \/ \E f \in {NULL} \cup CustomRngs : uuid7_init(f)

Spec == Init /\ [][Next]_vars

SpecWide == InitWide /\ [][Next]_vars

SpecEntropy == InitEntropy /\ [][Next]_vars

----------------------------------------------------------------------------
(* The other builds of the generator: uuid_v7 (with fill_random) and the two *)
(* uuid_gen. Each keeps the register g_v7_state in the same packing and has  *)
(* no swappable RNG. Their wall clock is the variable clock, which ticks and *)
(* may be set back; a call reads it in a step of its own.                    *)

\* what these builds never touch
fixed == <<epoch, os_entropy, build, g_uuid_rng_ptr, site, fn, drawn, short,
           cfg, lastcall>>

\* every register the generator leaves when it has issued all but the last,
\* or all, sequences of a millisecond the clock has shown; and the zero it
\* starts with
RegStarts ==
    {U64Zero} \cup
    {V7_PACK(ms, seq) : ms \in {ClockStart, AddN(ClockStart, ClockStep)},
                        seq \in {V7_SEQ_MASK - 1, V7_SEQ_MASK}}

InitBuilds ==
    /\ InitFrames
    /\ build \in {UUID_V7_C} \cup GenBuilds
    /\ g_v7_state \in RegStarts
    /\ epoch = ClockStart
    /\ clock = ClockStart
    /\ os_entropy \in (IF build = UUID_V7_C THEN BOOLEAN ELSE {TRUE})

\* CLOCK_REALTIME advances
clock_tick ==
    /\ Lt64(clock, AddN(ClockStart, ClockStep))
    /\ clock' = Inc64(clock)
    /\ UNCHANGED <<fixed, shared, pc, ret, out, frame, hist, counters,
                   last_id, now_ms, next_seq, arg, source>>

\* CLOCK_REALTIME is set back
clock_set_back ==
    /\ Lt64(ClockStart, clock)
    /\ clock' = Dec64(clock)
    /\ UNCHANGED <<fixed, shared, pc, ret, out, frame, hist, counters,
                   last_id, now_ms, next_seq, arg, source>>

\* a | b on unsigned values
RECURSIVE BitOr(_, _)
BitOr(a, b) ==
    IF a = 0 THEN b
    ELSE IF b = 0 THEN a
    ELSE (IF a % 2 = 1 \/ b % 2 = 1 THEN 1 ELSE 0) + 2 * BitOr(a \div 2, b \div 2)

\* a ^ b on unsigned values
RECURSIVE BitXor(_, _)
BitXor(a, b) ==
    IF a = 0 THEN b
    ELSE IF b = 0 THEN a
    ELSE (IF a % 2 # b % 2 THEN 1 ELSE 0) + 2 * BitXor(a \div 2, b \div 2)

\* (use_ms << 12) | (uint64_t)next_seq, for a next_seq below 2^16
or_seq(ms, seq) ==
    LET s == Shl12(ms) IN <<s[1], s[2], s[3], BitOr(s[4], seq)>>

\* the locals of a call end with it
end_of_call(t) ==
    /\ prev' = [prev EXCEPT ![t] = U64Zero]
    /\ use_ms' = [use_ms EXCEPT ![t] = U64Zero]
    /\ candidate' = [candidate EXCEPT ![t] = U64Zero]
    /\ seq12' = [seq12 EXCEPT ![t] = 0]
    /\ now_ms' = [now_ms EXCEPT ![t] = U64Zero]
    /\ next_seq' = [next_seq EXCEPT ![t] = 0]

\* use_ms = (now_ms > prev_ms) ? now_ms : prev_ms;
clamp_gt(now, prev_ms) == IF Lt64(prev_ms, now) THEN now ELSE prev_ms

----------------------------------------------------------------------------
(* uuid_v7 *)

\* (use_ms == prev_ms) ? (uint16_t)(prev_seq + 1u) : 0u
v7_next_seq(use, p) ==
    IF use = V7_UNPACK_MS(p) THEN (V7_UNPACK_SEQ(p) + 1) % Limb ELSE 0

\* the 16 output bytes of uuid_v7 from (use_ms, seq12, rb)
v7_encode(ms, seq, rb) ==
    [i \in 0..(V7_UUID_BYTES - 1) |->
        IF i < 6 THEN V7_MS_BYTE(ms, i)
        ELSE IF i = 6 THEN BitOr(112, (seq \div 256) % 16)
        ELSE IF i = 7 THEN seq % 256
        ELSE IF i = 8 THEN BitOr(rb[1] % 64, 128)
        ELSE rb[i - 7]]

\* the very weak fallback: p[i] = (uint8_t)(0xA5 ^ (i * 41))
weak_filler(n) == [i \in 1..n |-> BitXor(165, (i - 1) * 41) % 256]

\* fill_random(p, n): its return value, what p holds afterwards and what
\* filled it. getrandom delivers; when the system's sources may fail, so does
\* /dev/urandom, or a read fails, or the device cannot be opened
fill_random(delivered, before) ==
    {[ret |-> 0, bytes |-> b, source |-> "getrandom"] : b \in delivered}
    \cup (IF os_entropy THEN {}
          ELSE {[ret |-> 0, bytes |-> b, source |-> "/dev/urandom"] :
                    b \in delivered}
               \cup {[ret |-> -1, bytes |-> b, source |-> NOCALL] : b \in before}
               \cup {[ret |-> 0, bytes |-> weak_filler(V7_RB_BYTES),
                      source |-> "filler"]})

\* entry: there is no check of out; the loop is entered
uuid_v7(t, o) ==
    /\ build = UUID_V7_C
    /\ pc[t] = "idle"
    /\ started < MaxCalls
    /\ t = FirstCaller \/ ncalls[t] < ncalls[FirstCaller]
    /\ ncalls' = [ncalls EXCEPT ![t] = @ + 1]
    /\ arg' = [arg EXCEPT ![t] = o]
    /\ pc' = [pc EXCEPT ![t] = "v_now"]
    /\ out' = [out EXCEPT ![t] = FreshBuf]
    /\ mine' = [mine EXCEPT ![t] = 0]
    /\ iters' = [iters EXCEPT ![t] = 0]
    /\ tail' = [tail EXCEPT ![t] = <<>>]
    /\ begun' = [begun EXCEPT ![t] = Len(issued)]
    /\ source' = [source EXCEPT ![t] = NOCALL]
    /\ UNCHANGED <<fixed, g_v7_state, ret, prev, use_ms, candidate, seq12,
                   commits, issued, spurious, clock, last_id, now_ms, next_seq>>

\* now_ms = realtime_ms(): at the head of the loop, or in the busy-wait
\* do { now_ms = realtime_ms(); } while(now_ms <= prev_ms); continue;
uuid_v7_now(t) ==
    /\ pc[t] \in {"v_now", "v_wait"}
    /\ now_ms' = [now_ms EXCEPT ![t] = clock]
    /\ IF pc[t] = "v_wait"
       THEN /\ pc' = [pc EXCEPT ![t] =
                        IF Le64(clock, V7_UNPACK_MS(prev[t])) THEN "v_wait"
                        ELSE "v_now"]
       ELSE pc' = [pc EXCEPT ![t] = "v_load"]
    /\ UNCHANGED <<fixed, shared, ret, out, prev, use_ms, candidate, seq12,
                   hist, counters, clock, last_id, next_seq, arg, source>>

\* prev = atomic_load(&g_v7_state); use_ms; next_seq; the overflow test; next
uuid_v7_load(t) ==
    LET p == g_v7_state
        use == clamp_gt(now_ms[t], V7_UNPACK_MS(p))
        ns == v7_next_seq(use, p)
    IN
    /\ pc[t] = "v_load"
    /\ prev' = [prev EXCEPT ![t] = p]
    /\ use_ms' = [use_ms EXCEPT ![t] = use]
    /\ next_seq' = [next_seq EXCEPT ![t] = ns]
    /\ IF use = V7_UNPACK_MS(p) /\ ns = 0
       THEN /\ pc' = [pc EXCEPT ![t] = "v_wait"]
            /\ UNCHANGED candidate
       ELSE /\ pc' = [pc EXCEPT ![t] = "v_cas"]
            /\ candidate' = [candidate EXCEPT ![t] = or_seq(use, ns)]
    /\ UNCHANGED <<fixed, shared, ret, out, seq12, commits, mine, iters, tail,
                   issued, begun, counters, clock, last_id, now_ms, arg,
                   source>>

\* the exchange succeeds: seq12 = next_seq; break;
uuid_v7_cas_success(t) ==
    /\ pc[t] = "v_cas"
    /\ g_v7_state = prev[t]
    /\ g_v7_state' = candidate[t]
    /\ seq12' = [seq12 EXCEPT ![t] = next_seq[t]]
    /\ commits' = Append(commits,
            [w |-> candidate[t], read |-> prev[t], now |-> now_ms[t]])
    /\ mine' = [mine EXCEPT ![t] = Len(commits) + 1]
    /\ pc' = [pc EXCEPT ![t] = "v_tail"]
    /\ UNCHANGED <<fixed, ret, out, prev, use_ms, candidate, iters, tail,
                   issued, begun, counters, clock, last_id, now_ms, next_seq,
                   arg, source>>

\* the exchange fails: retry with updated prev
uuid_v7_cas_failure(t) ==
    /\ pc[t] = "v_cas"
    /\ \/ g_v7_state # prev[t] /\ UNCHANGED spurious
       \/ g_v7_state = prev[t] /\ ~spurious /\ spurious' = TRUE
    /\ prev' = [prev EXCEPT ![t] = g_v7_state]
    /\ pc' = [pc EXCEPT ![t] = "v_now"]
    /\ UNCHANGED <<fixed, shared, ret, out, use_ms, candidate, seq12, commits,
                   mine, iters, tail, issued, begun, ncalls, clock, last_id,
                   now_ms, next_seq, arg, source>>

\* a variant of the tail that records the identifier it returns in last_id
uuid_v7_tail_record(t) ==
    /\ pc[t] = "v_tail"
    /\ \E r \in fill_random(RbDraws, RbStack) :
        LET id == v7_encode(use_ms[t], seq12[t], r.bytes) IN
        /\ source' = [source EXCEPT ![t] = r.source]
        /\ IF r.ret # 0
           THEN /\ ret' = [ret EXCEPT ![t] = -1]
                /\ pc' = [pc EXCEPT ![t] = "idle"]
                /\ begun' = [begun EXCEPT ![t] = 0]
                /\ UNCHANGED <<out, tail, issued, last_id>>
           ELSE IF arg[t] = NULL
           THEN /\ \E outcome \in {"SIGSEGV", "idle"} :
                    pc' = [pc EXCEPT ![t] = outcome]
                /\ ret' = [ret EXCEPT ![t] = 0]
                /\ tail' = [tail EXCEPT ![t] = r.bytes]
                /\ begun' = [begun EXCEPT ![t] = 0]
                /\ UNCHANGED <<out, issued, last_id>>
           ELSE /\ out' = [out EXCEPT ![t] = id]
                /\ tail' = [tail EXCEPT ![t] = r.bytes]
                /\ IF id = last_id
                   THEN /\ last_id' = id
                        /\ pc' = [pc EXCEPT ![t] = "v_now"]
                        /\ UNCHANGED <<ret, issued, begun>>
                   ELSE /\ ret' = [ret EXCEPT ![t] = 0]
                        /\ issued' = Append(issued,
                                [key |-> prefix8(id), begun |-> begun[t]])
                        /\ pc' = [pc EXCEPT ![t] = "idle"]
                        /\ begun' = [begun EXCEPT ![t] = 0]
                        /\ last_id' = id
    /\ IF pc'[t] = "v_now"
       THEN UNCHANGED <<prev, use_ms, candidate, seq12, now_ms, next_seq>>
       ELSE end_of_call(t)
    /\ UNCHANGED <<fixed, shared, commits, mine, iters, counters, clock, arg>>

\* if(fill_random(rb, sizeof rb) != 0) return -1; the 16 bytes are written
\* through out (through a null pointer the behaviour is undefined: the store
\* traps, or the call goes on and returns); the guard on last_id; return 0
uuid_v7_tail(t) ==
    /\ pc[t] = "v_tail"
    /\ \E r \in fill_random(RbDraws, RbStack) :
        LET id == v7_encode(use_ms[t], seq12[t], r.bytes) IN
        /\ source' = [source EXCEPT ![t] = r.source]
        /\ IF r.ret # 0
           THEN /\ ret' = [ret EXCEPT ![t] = -1]
                /\ pc' = [pc EXCEPT ![t] = "idle"]
                /\ begun' = [begun EXCEPT ![t] = 0]
                /\ UNCHANGED <<out, tail, issued, last_id>>
           ELSE IF arg[t] = NULL
           THEN /\ \E outcome \in {"SIGSEGV", "idle"} :
                    pc' = [pc EXCEPT ![t] = outcome]
                /\ ret' = [ret EXCEPT ![t] = 0]
                /\ tail' = [tail EXCEPT ![t] = r.bytes]
                /\ begun' = [begun EXCEPT ![t] = 0]
                /\ UNCHANGED <<out, issued, last_id>>
           ELSE /\ out' = [out EXCEPT ![t] = id]
                /\ tail' = [tail EXCEPT ![t] = r.bytes]
                /\ IF id = last_id
                   THEN /\ last_id' = id
                        /\ pc' = [pc EXCEPT ![t] = "v_now"]
                        /\ UNCHANGED <<ret, issued, begun>>
                   ELSE /\ ret' = [ret EXCEPT ![t] = 0]
                        /\ issued' = Append(issued,
                                [key |-> prefix8(id), begun |-> begun[t]])
                        /\ pc' = [pc EXCEPT ![t] = "idle"]
                        /\ begun' = [begun EXCEPT ![t] = 0]
                        /\ UNCHANGED last_id
    /\ IF pc'[t] = "v_now"
       THEN UNCHANGED <<prev, use_ms, candidate, seq12, now_ms, next_seq>>
       ELSE end_of_call(t)
    /\ UNCHANGED <<fixed, shared, commits, mine, iters, counters, clock, arg>>

----------------------------------------------------------------------------
(* uuid_gen *)

\* a variant of the zero-start sequence that starts a millisecond at 1
next_seq_one(use, p) ==
    IF use = V7_UNPACK_MS(p) THEN (V7_UNPACK_SEQ(p) + 1) % (V7_SEQ_MASK + 1)
    ELSE 1

\* the zero-start build:
\* (use_ms == prev_ms) ? (uint16_t)((prev_seq + 1u) & 0x0FFFu) : 0u
next_seq_zero(use, p) ==
    IF use = V7_UNPACK_MS(p) THEN (V7_UNPACK_SEQ(p) + 1) % (V7_SEQ_MASK + 1)
    ELSE 0

\* a variant of the bump that is not reduced to 12 bits
next_seq_random_wide(use, p, rnd) ==
    IF use = V7_UNPACK_MS(p) THEN V7_UNPACK_SEQ(p) + 1 ELSE rnd

\* the libsodium build: same ms => bump seq; new ms => the 12-bit sample rnd,
\* which is never 0
next_seq_random(use, p, rnd) ==
    IF use = V7_UNPACK_MS(p) THEN (V7_UNPACK_SEQ(p) + 1) % (V7_SEQ_MASK + 1)
    ELSE rnd

\* the values next_seq may take in this build
next_seqs(use, p) ==
    IF build = UUID_GEN_C THEN {next_seq_zero(use, p)}
    ELSE {next_seq_random(use, p, sample12(b)) : b \in RndDraws}

\* the 16 output bytes of the zero-start uuid_gen from (use_ms, seq12, rb)
uuid_gen_encode(ms, seq, rb) ==
    [i \in 0..(V7_UUID_BYTES - 1) |->
        IF i < 6 THEN V7_MS_BYTE(ms, i)
        ELSE IF i = 6 THEN BitOr(7 * 16, (seq \div 256) % 16)
        ELSE IF i = 7 THEN seq % 256
        ELSE IF i = 8 THEN BitOr(rb[1] % 64, 128)
        ELSE rb[i - 7]]

\* the libsodium uuid_gen writes out[0..5], out[6], out[7], out[8], and then
\* out[V7_MS_BYTES + 2u + i] = rb[1 + i] for i in 0..V7_RB_BYTES - 2; a byte it
\* does not write keeps what the caller's buffer held
sodium_encode(buf, ms, seq, rb) ==
    LET head == [i \in 0..(V7_UUID_BYTES - 1) |->
                    IF i < V7_MS_BYTES THEN V7_MS_BYTE(ms, i)
                    ELSE IF i = 6
                    THEN BitOr(V7_BYTE_MASK(7) * 16,
                               V7_SEQ_HIGH_MASK(seq \div 256))
                    ELSE IF i = 7 THEN V7_SEQ_LOW_MASK(seq)
                    ELSE IF i = 8
                    THEN BitOr(V7_RB0_LOW6_MASK(rb[1]), V7_VARIANT_TOP)
                    ELSE buf[i]]
    IN  [i \in 0..(V7_UUID_BYTES - 1) |->
            IF /\ i >= V7_MS_BYTES + 2
               /\ i - (V7_MS_BYTES + 2) <= V7_RB_BYTES - 2
            THEN rb[1 + (i - (V7_MS_BYTES + 2)) + 1]
            ELSE head[i]]

\* entry: if(!out) return -1; otherwise enter the loop
uuid_gen(t, o) ==
    /\ build \in GenBuilds
    /\ pc[t] = "idle"
    /\ started < MaxCalls
    /\ t = FirstCaller \/ ncalls[t] < ncalls[FirstCaller]
    /\ ncalls' = [ncalls EXCEPT ![t] = @ + 1]
    /\ arg' = [arg EXCEPT ![t] = o]
    /\ IF o = NULL
       THEN /\ ret' = [ret EXCEPT ![t] = -1]
            /\ UNCHANGED <<pc, out, mine, iters, tail, begun>>
       ELSE /\ pc' = [pc EXCEPT ![t] = "g_now"]
            /\ out' = [out EXCEPT ![t] = FreshBuf]
            /\ mine' = [mine EXCEPT ![t] = 0]
            /\ iters' = [iters EXCEPT ![t] = 0]
            /\ tail' = [tail EXCEPT ![t] = <<>>]
            /\ begun' = [begun EXCEPT ![t] = Len(issued)]
            /\ UNCHANGED ret
    /\ UNCHANGED <<fixed, g_v7_state, prev, use_ms, candidate, seq12, commits,
                   issued, spurious, clock, last_id, now_ms, next_seq, source>>

\* const uint64_t now_ms = realtime_ms();
uuid_gen_now(t) ==
    /\ pc[t] = "g_now"
    /\ now_ms' = [now_ms EXCEPT ![t] = clock]
    /\ pc' = [pc EXCEPT ![t] = "g_load"]
    /\ UNCHANGED <<fixed, shared, ret, out, prev, use_ms, candidate, seq12,
                   hist, counters, clock, last_id, next_seq, arg, source>>

\* prev = atomic_load(&g_v7_state); use_ms; next_seq; on a wrap within the
\* same ms continue; otherwise next
uuid_gen_load(t) ==
    LET p == g_v7_state
        use == clamp(now_ms[t], V7_UNPACK_MS(p))
    IN
    /\ pc[t] = "g_load"
    /\ prev' = [prev EXCEPT ![t] = p]
    /\ use_ms' = [use_ms EXCEPT ![t] = use]
    /\ \E ns \in next_seqs(use, p) :
        /\ next_seq' = [next_seq EXCEPT ![t] = ns]
        /\ IF use = V7_UNPACK_MS(p) /\ ns = 0
           THEN /\ pc' = [pc EXCEPT ![t] = "g_now"]
                /\ UNCHANGED candidate
           ELSE /\ pc' = [pc EXCEPT ![t] = "g_cas"]
                /\ candidate' = [candidate EXCEPT ![t] = or_seq(use, ns)]
    /\ UNCHANGED <<fixed, shared, ret, out, seq12, commits, mine, iters, tail,
                   issued, begun, counters, clock, last_id, now_ms, arg,
                   source>>

\* the exchange succeeds: seq12 = next_seq; break;
uuid_gen_cas_success(t) ==
    /\ pc[t] = "g_cas"
    /\ g_v7_state = prev[t]
    /\ g_v7_state' = candidate[t]
    /\ seq12' = [seq12 EXCEPT ![t] = next_seq[t]]
    /\ commits' = Append(commits,
            [w |-> candidate[t], read |-> prev[t], now |-> now_ms[t]])
    /\ mine' = [mine EXCEPT ![t] = Len(commits) + 1]
    /\ pc' = [pc EXCEPT ![t] = "g_tail"]
    /\ UNCHANGED <<fixed, ret, out, prev, use_ms, candidate, iters, tail,
                   issued, begun, counters, clock, last_id, now_ms, next_seq,
                   arg, source>>

\* the exchange fails: prev receives the register's value, the loop starts over
uuid_gen_cas_failure(t) ==
    /\ pc[t] = "g_cas"
    /\ \/ g_v7_state # prev[t] /\ UNCHANGED spurious
       \/ g_v7_state = prev[t] /\ ~spurious /\ spurious' = TRUE
    /\ prev' = [prev EXCEPT ![t] = g_v7_state]
    /\ pc' = [pc EXCEPT ![t] = "g_now"]
    /\ UNCHANGED <<fixed, shared, ret, out, use_ms, candidate, seq12, commits,
                   mine, iters, tail, issued, begun, ncalls, clock, last_id,
                   now_ms, next_seq, arg, source>>

\* rand8(rb) or randombytes_buf(rb, V7_RB_BYTES); the output bytes; return 0
uuid_gen_tail(t) ==
    /\ pc[t] = "g_tail"
    /\ \E rb \in RbDraws :
        LET id == IF build = UUID_GEN_C
                  THEN uuid_gen_encode(use_ms[t], seq12[t], rb)
                  ELSE sodium_encode(out[t], use_ms[t], seq12[t], rb)
        IN
        /\ out' = [out EXCEPT ![t] = id]
        /\ tail' = [tail EXCEPT ![t] = rb]
        /\ issued' = Append(issued, [key |-> prefix8(id), begun |-> begun[t]])
    /\ ret' = [ret EXCEPT ![t] = 0]
    /\ pc' = [pc EXCEPT ![t] = "idle"]
    /\ begun' = [begun EXCEPT ![t] = 0]
    /\ end_of_call(t)
    /\ UNCHANGED <<fixed, shared, commits, mine, iters, counters, clock,
                   last_id, arg, source>>

----------------------------------------------------------------------------
\* one step of thread t's uuid_gen call in progress
StepGen(t) ==
    \/ uuid_gen_now(t)
    \/ uuid_gen_load(t)
    \/ uuid_gen_cas_success(t)
    \/ uuid_gen_cas_failure(t)
    \/ uuid_gen_tail(t)

\* one step of thread t's uuid_v7 call in progress
StepV7(t) ==
    \/ uuid_v7_now(t)
    \/ uuid_v7_load(t)
    \/ uuid_v7_cas_success(t)
    \/ uuid_v7_cas_failure(t)
    \/ uuid_v7_tail(t)

NextBuilds ==
    \/ \E t \in Threads :
        \/ \E o \in {NULL, BUF} : uuid_v7(t, o)
        \/ \E o \in {NULL, BUF} : uuid_gen(t, o)
        \/ StepV7(t)
        \/ StepGen(t)
    \/ clock_tick
    \/ clock_set_back

SpecBuilds == InitBuilds /\ [][NextBuilds]_vars

\* a process built with one of the two uuid_gen
InitGen == InitBuilds /\ build \in GenBuilds

NextGen ==
    \/ \E t \in Threads :
        \/ \E o \in {NULL, BUF} : uuid_gen(t, o)
        \/ StepGen(t)
    \/ clock_tick
    \/ clock_set_back

SpecGen == InitGen /\ [][NextGen]_vars

\* a process with uuid_gen whose register is at the end of a millisecond
InitWrap == InitGen /\ g_v7_state # U64Zero

\* the calls of uuid_gen while the clock only advances
NextWrap ==
    \/ \E t \in Threads :
        \/ \E o \in {NULL, BUF} : uuid_gen(t, o)
        \/ StepGen(t)
    \/ clock_tick

\* every thread that is in a call goes on running
SpecGenLive ==
    /\ InitWrap
    /\ [][NextWrap]_vars
    /\ \A t \in Threads : WF_vars(StepGen(t))

----------------------------------------------------------------------------
(* Reading identifiers back, as the tests do *)

\* extract_ms: the 48-bit big-endian timestamp of an identifier
extract_ms(id) ==
    <<0, id[0] * 256 + id[1], id[2] * 256 + id[3], id[4] * 256 + id[5]>>

\* extract_seq: the 12-bit sequence of an identifier
extract_seq(id) == (id[6] % 16) * 256 + id[7]

\* memcmp over the first 8 bytes of two identifiers
memcmp8(a, b) ==
    LET d == {i \in 0..7 : a[i] # b[i]} IN
    IF d = {} THEN 0
    ELSE LET k == CHOOSE i \in d : \A j \in d : i <= j IN a[k] - b[k]

\* an identifier is ordered before another by (timestamp, sequence)
IdBefore(a, b) ==
    \/ Lt64(extract_ms(a), extract_ms(b))
    \/ extract_ms(a) = extract_ms(b) /\ extract_seq(a) < extract_seq(b)

\* thread t's last call returned 0 and its buffer holds an identifier
Returned(t) == pc[t] = "idle" /\ ret[t] = 0 /\ out[t][0] # -1

\* the successful exchange of thread t's call
Commit(t) == commits[mine[t]]

\* the first 8 bytes of the identifier a committed word is encoded into
WordPrefix(w) ==
    prefix8(encode(V7_UNPACK_MS(w), V7_UNPACK_SEQ(w), <<0, 0, 0, 0, 0, 0, 0, 0>>))

\* a committed word's timestamp fits the 48 bits of the identifier
Below48(w) == V7_UNPACK_MS(w)[1] = 0

\* bytes 8..15 of thread t's identifier carry the 8 tail bytes it drew
TailEncoded(t) ==
    /\ out[t][8] = 128 + (tail[t][1] % 64)
    /\ \A i \in 9..15 : out[t][i] = tail[t][i - 7]

----------------------------------------------------------------------------
(* Properties *)

\* C1: the values committed to g_v7_state are strictly increasing: every
\* successful exchange stores a word greater than the one it read, each
\* committed word is greater than the one committed before it, and the
\* register holds the last one, whatever the interleaving and the clock.
C1_CommitsIncrease ==
    /\ \A k \in 1..Len(commits) : Lt64(commits[k].read, commits[k].w)
    /\ \A k \in 2..Len(commits) : Lt64(commits[k - 1].w, commits[k].w)
    /\ commits # <<>> => g_v7_state = commits[Len(commits)].w

\* two commits in the same millisecond: the clock stood still or stepped back
C1_Witness ==
    \E k \in 2..Len(commits) :
        V7_UNPACK_MS(commits[k].w) = V7_UNPACK_MS(commits[k - 1].w)

\* C2: no two identifiers returned by uuid7_gen, on any threads, carry the
\* same (timestamp, sequence) pair.
C2_NoDuplicates ==
    \A i, j \in 1..Len(issued) :
        i < j => ~(/\ extract_ms(issued[i].key) = extract_ms(issued[j].key)
                   /\ extract_seq(issued[i].key) = extract_seq(issued[j].key))

\* two overlapping calls returned identifiers of the same millisecond
C2_Witness ==
    /\ Len(issued) = 2
    /\ issued[2].begun = 0
    /\ extract_ms(issued[1].key) = extract_ms(issued[2].key)

C4_AsStated ==
    \A i, j \in 1..Len(commits) :
        i < j => /\ Lt64(commits[i].w, commits[j].w)
                 /\ memcmp8(WordPrefix(commits[i].w), WordPrefix(commits[j].w)) <= 0

\* C4: of any two successful allocations whose register timestamps fit in
\* 48 bits, the one committed second has the greater word and its first 8
\* encoded bytes are not smaller.
C4_OrderBelow48 ==
    \A i, j \in 1..Len(commits) :
        (i < j /\ \A k \in 1..j : Below48(commits[k].w))
        => /\ Lt64(commits[i].w, commits[j].w)
           /\ memcmp8(WordPrefix(commits[i].w), WordPrefix(commits[j].w)) <= 0

\* two allocations at the last timestamp that fits in 48 bits
C4_Witness ==
    /\ Len(commits) = 2
    /\ \A k \in 1..2 : V7_UNPACK_MS(commits[k].w) = ClockStartWide

\* C5: every identifier written by a successful uuid7_gen has 0111 in the
\* top nibble of byte 6 and 10 in the top two bits of byte 8.
C5_VersionVariant ==
    \A t \in Threads :
        Returned(t) => out[t][6] \div 16 = 7 /\ out[t][8] \div 64 = 2

\* an identifier whose first tail byte came from the provider with other top
\* bits, and whose sequence has a non-zero high nibble
C5_Witness ==
    \E t \in Threads :
        /\ Returned(t)
        /\ tail[t][1] \div 64 # 2
        /\ V7_UNPACK_SEQ(Commit(t).w) \div 256 # 0

\* C6: the 16 bytes a successful call writes are the low 48 bits of its
\* committed timestamp in big-endian order, 0x70 with the high nibble of its
\* committed sequence, the low byte of that sequence, 0x80 with the low six
\* bits of rb[0], and rb[1..7].
C6_Encoding ==
    \A t \in Threads :
        Returned(t) =>
            LET w == Commit(t).w IN
            /\ \A i \in 0..(V7_UUID_BYTES - 1) : out[t][i] \in 0..255
            /\ out[t][0] = (w[1] \div 16) % 256
            /\ out[t][1] = (w[1] % 16) * 16 + (w[2] \div 4096)
            /\ out[t][2] = (w[2] \div 16) % 256
            /\ out[t][3] = (w[2] % 16) * 16 + (w[3] \div 4096)
            /\ out[t][4] = (w[3] \div 16) % 256
            /\ out[t][5] = (w[3] % 16) * 16 + (w[4] \div 4096)
            /\ out[t][6] = 112 + ((w[4] % 4096) \div 256)
            /\ out[t][7] = w[4] % 256
            /\ TailEncoded(t)

\* an identifier of a commit with sequence 4095
C6_Witness ==
    \E t \in Threads : Returned(t) /\ V7_UNPACK_SEQ(Commit(t).w) = V7_SEQ_MASK

\* C7: an identifier whose commit entered a millisecond the register was not
\* in has a non-zero sequence, also when the provider wrote zero bytes.
C7_SlotEntryNonZero ==
    \A t \in Threads :
        (Returned(t) /\ V7_UNPACK_MS(Commit(t).w) # V7_UNPACK_MS(Commit(t).read))
        => extract_seq(out[t]) # 0

\* a slot entered with the sequence one: the provider wrote zero bytes
C7_Witness ==
    \E t \in Threads :
        /\ Returned(t)
        /\ V7_UNPACK_MS(Commit(t).w) # V7_UNPACK_MS(Commit(t).read)
        /\ extract_seq(out[t]) = 1

\* C8: uuid7_gen(NULL) returns -1 in its entry step: the register, the RNG
\* pointer, the buffers and the histories of clock-driven draws and
\* exchanges are unchanged, and the loop is not entered.
C8_NullRejected ==
    [][\A t \in Threads :
        uuid7_gen(t, NULL) =>
            /\ ret'[t] = -1
            /\ UNCHANGED <<shared, pc, out, frame, hist>>]_vars

\* a call with a null buffer returned -1 after an identifier was committed
C8_Witness ==
    \E t \in Threads : ret[t] = -1 /\ pc[t] = "idle" /\ commits # <<>>

Requested(f) == IF f # NULL THEN f ELSE DEFAULT_RNG

C12_InitInstallsFn ==
    \A f \in CustomRngs :
        lastcfg = <<"uuid7_init", f, 0>> =>
            /\ g_uuid_rng_ptr = f
            /\ lastcall \in {NOCALL, f}

\* a call drew from the built-in RNG, uuid7_init(fn) replaced it, and a later
\* call returned an identifier drawn from fn
C12_Witness ==
    \E f \in CustomRngs :
        /\ lastcfg = <<"uuid7_init", f, 0>>
        /\ lastcall = f
        /\ \E t, u \in Threads :
            fn[t] = DEFAULT_RNG /\ Returned(u) /\ fn[u] = f /\ begun[u] = 0
               /\ Len(issued) = 2

\* C13: after uuid7_set_rng(NULL) returned 0 the pointer is the built-in
\* RNG, no fill calls another function until the next configuration call,
\* and the identifiers returned from it carry the version and variant bits.
C13_ResetToDefault ==
    /\ lastcfg = <<"uuid7_set_rng", NULL, 0>> =>
            /\ g_uuid_rng_ptr = DEFAULT_RNG
            /\ lastcall \in {NOCALL, DEFAULT_RNG}
    /\ \A t \in Threads :
        (Returned(t) /\ fn[t] = DEFAULT_RNG) =>
            /\ ret[t] = 0
            /\ out[t][6] \div 16 = 7
            /\ out[t][8] \div 64 = 2

\* a caller's provider was called, uuid7_set_rng(NULL) reset it, and a later
\* fill of a call that returned called the built-in RNG
C13_Witness ==
    /\ lastcfg = <<"uuid7_set_rng", NULL, 0>>
    /\ lastcall = DEFAULT_RNG
    /\ \E t, u \in Threads :
        fn[t] \in CustomRngs /\ Returned(u) /\ fn[u] = DEFAULT_RNG

\* C14: uuid7_set_rng returns 0, and after uuid7_set_rng(p) every fill calls
\* the provider p asks for until the next configuration call; a fill never
\* calls anything but the built-in RNG or a caller's provider.
C14_SetRngAtomic ==
    /\ \A f \in {NULL} \cup CustomRngs :
        lastcfg = <<"uuid7_set_rng", f, 0>> =>
            /\ g_uuid_rng_ptr = Requested(f)
            /\ lastcall \in {NOCALL, Requested(f)}
    /\ lastcall \in {NOCALL, DEFAULT_RNG} \cup CustomRngs
    /\ (lastcfg # <<>> /\ lastcfg[1] = "uuid7_set_rng") => lastcfg[3] = 0

\* the only call so far is in flight, and its sample was filled by the
\* provider uuid7_set_rng installed
C14_Witness ==
    \E f \in CustomRngs : \E t \in Threads :
        /\ lastcfg = <<"uuid7_set_rng", f, 0>>
        /\ lastcall = f
        /\ started = 1
        /\ pc[t] = "L223"

\* C15: while no configuration call was made, a fill calls the built-in RNG
\* and the pointer holds it from then on, so the identifiers of the calls that
\* returned 0 were drawn from it; the function a fill calls is never the null
\* pointer.
C15_LazyDefault ==
    /\ lastcfg = <<>> =>
            /\ lastcall \in {NOCALL, DEFAULT_RNG}
            /\ lastcall = DEFAULT_RNG => g_uuid_rng_ptr = DEFAULT_RNG
            /\ \A t \in Threads : Returned(t) => fn[t] = DEFAULT_RNG
    /\ lastcall # NULL

\* two first callers both loaded the null pointer; one has returned an
\* identifier, the other is about to load again
C15_Witness ==
    /\ lastcfg = <<>>
    /\ \E t, u \in Threads :
        Returned(t) /\ fn[t] = DEFAULT_RNG /\ pc[u] = "fr_reload"

\* C16 as stated: on an exhausted sequence nothing is committed until the
\* clock reports a greater millisecond, so no committed timestamp is greater
\* than the greatest value the clock reports.
C16_AsStated ==
    \A k \in 1..Len(commits) :
        Le64(V7_UNPACK_MS(commits[k].w), AddN(epoch, ClockStep))

\* C17 as stated: a commit in the millisecond of the commit before it has
\* the sequence (prev_seq + 1) mod 4096.
C17_AsStated ==
    \A k \in 1..Len(commits) :
        V7_UNPACK_MS(commits[k].w) = V7_UNPACK_MS(commits[k].read) =>
            V7_UNPACK_SEQ(commits[k].w)
                = (V7_UNPACK_SEQ(commits[k].read) + 1) % (V7_SEQ_MASK + 1)

\* C18 as stated: no call returns 0 with an identifier built from a buffer
\* that a fill left incomplete.
C18_AsStated == \A t \in Threads : Returned(t) => ~short[t]

\* C19 as stated: an exchange fails only if another call's exchange
\* succeeded from the value this call loaded.
C19_AsStated ==
    [][\A t \in Threads :
        cas_failure(t) =>
            \E k \in 1..Len(commits) : commits[k].read = prev[t]]_vars

\* C19: an exchange fails only if another call's exchange succeeded from the
\* value this call loaded, or the weak exchange failed spuriously; so the loop
\* iterations of a call never outnumber the commits and the spurious failure
\* by more than one.
C19_LockFree ==
    /\ [](\A t \in Threads :
            iters[t] <= 1 + Len(commits) + (IF spurious THEN 1 ELSE 0))
    /\ [][\A t \in Threads :
            cas_failure(t) =>
                \/ \E k \in 1..Len(commits) : commits[k].read = prev[t]
                \/ ~spurious /\ spurious']_vars

\* a call is back at the head of the loop after another call committed
C19_Witness ==
    \E t \in Threads :
        /\ pc[t] = "L187"
        /\ iters[t] = 1
        /\ ~spurious
        /\ commits # <<>>

\* C20 as stated: a call of the only thread that ever called returns after
\* exactly one loop iteration.
C20_AsStated ==
    \A t, u \in Threads :
        (u # t /\ ncalls[u] = 0 /\ Returned(t)) => iters[t] = 1

\* C20: a call of the only thread that ever called returns after exactly one
\* loop iteration, with at most two sequence samples, when the weak exchange
\* has not failed spuriously.
C20_OneIteration ==
    \A t, u \in Threads :
        (u # t /\ ncalls[u] = 0 /\ Returned(t) /\ ~spurious) =>
            iters[t] = 1 /\ drawn[t] \in {2, 4}

\* an uncontended call over an exhausted sequence: one iteration, two samples
C20_Witness ==
    \E t, u \in Threads :
        /\ u # t
        /\ ncalls[u] = 0
        /\ Returned(t)
        /\ ~spurious
        /\ V7_UNPACK_SEQ(Commit(t).read) = V7_SEQ_MASK
        /\ drawn[t] = 4

\* C21 as stated: a call that commits in its first iteration has asked the
\* provider for sequence bytes only when it entered a new millisecond: two
\* bytes then, none when it stayed in the millisecond of the register.
C21_AsStated ==
    \A t \in Threads :
        (Returned(t) /\ iters[t] = 1) =>
            drawn[t] = IF V7_UNPACK_MS(Commit(t).w) = V7_UNPACK_MS(Commit(t).read)
                       THEN 0 ELSE 2

\* thread t's step calls a provider: sequence bytes or the tail are filled
Called(t) == drawn'[t] > drawn[t] \/ (tail[t] = <<>> /\ tail'[t] # <<>>)

\* C22 as stated: the fill of the tail calls the provider that the fill of
\* the call's last sequence sample called.
C22_AsStated ==
    [][\A t \in Threads :
        (site[t] = "rb" /\ pc[t] = "fr_load" /\ Called(t)) => fn'[t] = fn[t]]_vars

\* C22: every fill calls the one value of the pointer it loaded: the
\* provider installed at that instant, or the built-in RNG when it loaded 0
\* again after the lazy installation; the load leaves the pointer as it is.
C22_FillSnapshot ==
    [][\A t \in Threads :
        Called(t) =>
            /\ fn'[t] = Requested(g_uuid_rng_ptr)
            /\ lastcall' = fn'[t]
            /\ g_uuid_rng_ptr' = g_uuid_rng_ptr]_vars

\* a call drew its sequence from the built-in RNG and is about to fill the
\* tail while the pointer holds a caller's provider
C22_Witness ==
    \E t \in Threads :
        /\ pc[t] = "fr_load"
        /\ site[t] = "rb"
        /\ fn[t] = DEFAULT_RNG
        /\ g_uuid_rng_ptr \in CustomRngs

\* C30: the lazy installation stores the built-in RNG only over a null
\* pointer: after uuid7_set_rng(f) or uuid7_init(f) with a caller's provider
\* f the pointer is f until the next configuration call, whatever fills are
\* in flight, and a pointer that is set is never null again.
C30_NoOverwrite ==
    /\ [](\A f \in CustomRngs :
            (lastcfg # <<>> /\ lastcfg[2] = f) => g_uuid_rng_ptr = f)
    /\ [][g_uuid_rng_ptr # NULL => g_uuid_rng_ptr' # NULL]_vars
    /\ [][\A t \in Threads :
            (pc[t] = "fr_cas" /\ pc'[t] = "fr_reload" /\ g_uuid_rng_ptr # NULL)
                => g_uuid_rng_ptr' = g_uuid_rng_ptr]_vars

\* a first call loaded the null pointer, uuid7_set_rng installed a caller's
\* provider, and the call's exchange has run since
C30_Witness ==
    \E f \in CustomRngs : \E t \in Threads :
        /\ lastcfg = <<"uuid7_set_rng", f, 0>>
        /\ lastcall = NOCALL
        /\ pc[t] = "fr_reload"
        /\ fn[t] = NULL
        /\ g_uuid_rng_ptr = f

\* C23 as stated: in the uuid_v7 build every identifier returned encodes the
\* (timestamp, sequence) pair of the word its call committed, an identifier
\* of a call that began after another returned carries a greater pair, and
\* no two identifiers carry the same pair.
C23_AsStated ==
    build = UUID_V7_C =>
        /\ \A t \in Threads :
            Returned(t) => prefix8(out[t]) = WordPrefix(Commit(t).w)
        /\ \A j \in 1..Len(issued) :
            \A i \in 1..issued[j].begun : IdBefore(issued[i].key, issued[j].key)
        /\ \A i, j \in 1..Len(issued) :
            i < j => prefix8(issued[i].key) # prefix8(issued[j].key)

\* C24 as stated: in the uuid_v7 build a commit over a register whose
\* sequence is 4095 is made only by a call whose clock sample is greater than
\* the register's timestamp: nothing is committed for the exhausted slot.
C24_AsStated ==
    build = UUID_V7_C =>
        \A k \in 1..Len(commits) :
            V7_UNPACK_SEQ(commits[k].read) = V7_SEQ_MASK =>
                Lt64(V7_UNPACK_MS(commits[k].read), commits[k].now)

\* C25 as stated: uuid_v7(NULL) returns an error at once: the call never
\* enters the loop, commits nothing and does not return 0.
C25_AsStated ==
    build = UUID_V7_C =>
        \A t \in Threads :
            arg[t] = NULL => /\ pc[t] = "idle"
                             /\ mine[t] = 0
                             /\ ncalls[t] > 0 => ret[t] # 0

\* C26 as stated: when fill_random has returned 0 to uuid_v7, rb was filled
\* by getrandom or from /dev/urandom.
C26_AsStated ==
    build = UUID_V7_C =>
        \A t \in Threads :
            (pc[t] = "idle" /\ ret[t] = 0 /\ tail[t] # <<>>) =>
                source[t] \in {"getrandom", "/dev/urandom"}

\* C27: in the zero-start uuid_gen every commit stores a word greater than
\* the one it read and than the one committed before it, the register holds
\* the last one, a commit in a new millisecond has sequence 0 and a commit in
\* the millisecond of the register has the register's sequence plus one, so
\* the sequences of one millisecond are 0..4095 at most.
C27_ZeroStart ==
    build = UUID_GEN_C =>
        /\ \A k \in 1..Len(commits) :
            /\ Lt64(commits[k].read, commits[k].w)
            /\ V7_UNPACK_MS(commits[k].w) # V7_UNPACK_MS(commits[k].read) =>
                    V7_UNPACK_SEQ(commits[k].w) = 0
            /\ V7_UNPACK_MS(commits[k].w) = V7_UNPACK_MS(commits[k].read) =>
                    V7_UNPACK_SEQ(commits[k].w) = V7_UNPACK_SEQ(commits[k].read) + 1
        /\ \A k \in 2..Len(commits) : Lt64(commits[k - 1].w, commits[k].w)
        /\ commits # <<>> => g_v7_state = commits[Len(commits)].w

\* the last sequence of a millisecond was committed, and the next commit
\* opened the next millisecond at sequence 0
C27_Witness ==
    /\ build = UUID_GEN_C
    /\ \E k \in 2..Len(commits) :
        /\ V7_UNPACK_SEQ(commits[k - 1].w) = V7_SEQ_MASK
        /\ commits[k].read = commits[k - 1].w
        /\ V7_UNPACK_SEQ(commits[k].w) = 0

\* the sequence of the register's millisecond is exhausted and the clock has
\* not passed it
Exhausted ==
    /\ V7_UNPACK_SEQ(g_v7_state) = V7_SEQ_MASK
    /\ Le64(clock, V7_UNPACK_MS(g_v7_state))

\* C28: in the builds of uuid_gen a commit over a register whose sequence is
\* 4095 is made only by a call whose clock sample is greater than the
\* register's timestamp, and a call in progress returns unless the sequence is
\* exhausted and the clock has not passed the register's timestamp.
C28_WrapRetry ==
    /\ [](build \in GenBuilds =>
            \A k \in 1..Len(commits) :
                V7_UNPACK_SEQ(commits[k].read) = V7_SEQ_MASK =>
                    Lt64(V7_UNPACK_MS(commits[k].read), commits[k].now))
    /\ \A t \in Threads :
        (build \in GenBuilds /\ pc[t] # "idle") ~> (pc[t] = "idle" \/ Exhausted)

\* a call has returned an identifier of the millisecond after the one whose
\* sequence it read exhausted
C28_Witness ==
    /\ build \in GenBuilds
    /\ \E t \in Threads :
        /\ Returned(t)
        /\ V7_UNPACK_SEQ(Commit(t).read) = V7_SEQ_MASK
        /\ V7_UNPACK_MS(Commit(t).w) = Inc64(V7_UNPACK_MS(Commit(t).read))

\* C29 as stated: in the libsodium uuid_gen every identifier returned has
\* byte 8 equal to 0x80 | (rb[0] & 0x3F) and bytes 9..15 equal to rb[1..7],
\* and all 16 bytes are written.
C29_AsStated ==
    build = UUID_GEN_SODIUM =>
        \A t \in Threads :
            Returned(t) =>
                /\ TailEncoded(t)
                /\ \A i \in 0..(V7_UUID_BYTES - 1) : out[t][i] # -1

\* C31: every committed word and every identifier returned by uuid7_gen has a
\* sequence in 1..4095, and once an exchange has succeeded the low 12 bits of
\* g_v7_state are not zero: a sample of zero becomes one, and prev + 1 is
\* taken only when prev's sequence is not 4095.
C31_SeqNeverZero ==
    /\ \A k \in 1..Len(commits) :
           V7_UNPACK_SEQ(commits[k].w) \in 1..V7_SEQ_MASK
    /\ Len(commits) > 0 => V7_UNPACK_SEQ(g_v7_state) # 0
    /\ \A t \in Threads : Returned(t) => extract_seq(out[t]) \in 1..V7_SEQ_MASK

\* an identifier of the same-slot step prev + 1, taken from a register whose
\* sequence is one (a zero sample remapped)
C31_Witness ==
    \E t \in Threads :
        /\ Returned(t)
        /\ V7_UNPACK_MS(Commit(t).w) = V7_UNPACK_MS(Commit(t).read)
        /\ V7_UNPACK_SEQ(Commit(t).read) = 1
        /\ extract_seq(out[t]) = 2

\* the bytes thread t's call has asked a provider for: sequence samples and tail
Consumed(t) == drawn[t] + Len(tail[t])

\* c is a candidate an iteration that loaded p can reach its exchange with,
\* from the bytes and the clock sample of that iteration alone
IterationCandidate(c, p) ==
    \/ \E b \in RndDraws : c = overflow_candidate(p, sample12(b))
    \/ \E now \in realtime_ms, b \in RndDraws :
          LET f == first_candidate(clamp(now, V7_UNPACK_MS(p)), p, sample12(b))
          IN  IF f = "overflow" THEN FALSE ELSE c = f

\* C32 as stated: a call of the only thread that ever called, over a register
\* whose sequence is not 4095, has asked the provider for exactly 10 bytes.
C32_AsStated ==
    \A t, u \in Threads :
        (/\ u # t
         /\ ncalls[u] = 0
         /\ Returned(t)
         /\ V7_UNPACK_SEQ(Commit(t).read) # V7_SEQ_MASK) => Consumed(t) = 10

\* C32: a uuid7_gen call asks the provider for 2 bytes in every loop
\* iteration, for 2 more only in an iteration that loaded a sequence of 4095
\* and whose first candidate did not pass the register, and for 8 bytes once,
\* after its successful exchange; a call that commits in its first iteration
\* without the overflow branch (every uncontended call over a sequence below
\* 4095 whose weak exchange did not fail spuriously) has asked for exactly 10,
\* and the candidate of an iteration is made of the bytes of that iteration.
C32_ProviderBytes ==
    /\ [](\A t, u \in Threads :
            /\ pc[t] = "L223" =>
                   /\ 2 * iters[t] <= drawn[t]
                   /\ drawn[t] <= 4 * iters[t]
                   /\ tail[t] = <<>>
            /\ Returned(t) =>
                   /\ Len(tail[t]) = V7_RB_BYTES
                   /\ 2 * iters[t] <= drawn[t]
                   /\ drawn[t] <= 4 * iters[t]
            /\ (/\ Returned(t)
                /\ iters[t] = 1
                /\ V7_UNPACK_SEQ(Commit(t).read) # V7_SEQ_MASK) => Consumed(t) = 10
            /\ (/\ u # t
                /\ ncalls[u] = 0
                /\ ~spurious
                /\ Returned(t)
                /\ V7_UNPACK_SEQ(Commit(t).read) # V7_SEQ_MASK) => Consumed(t) = 10)
    /\ [][\A t \in Threads : pc[t] # "idle" =>
            /\ drawn'[t] # drawn[t] =>
                   /\ drawn'[t] = drawn[t] + 2
                   /\ pc[t] \in {"fr_load", "fr_reload"}
                   /\ site[t] \in {"rnd", "rnd2"}
            /\ iters'[t] # iters[t] =>
                   /\ iters'[t] = iters[t] + 1
                   /\ drawn'[t] = drawn[t]
                   /\ site'[t] = "rnd"
            /\ (site[t] = "rnd" /\ site'[t] = "rnd2") =>
                   /\ drawn'[t] = drawn[t] + 2
                   /\ V7_UNPACK_SEQ(prev[t]) = V7_SEQ_MASK
                   /\ \E now \in realtime_ms, b \in RndDraws :
                          Le64(V7_PACK(clamp(now, V7_UNPACK_MS(prev[t])),
                                       sample12(b)), prev[t])
            /\ (site[t] = "rnd2" /\ drawn'[t] # drawn[t]) => pc'[t] = "L223"
            /\ (pc[t] # "L223" /\ pc'[t] = "L223") =>
                   /\ drawn'[t] = drawn[t] + 2
                   /\ IterationCandidate(candidate'[t], prev[t])
                   /\ site[t] = "rnd" =>
                          \/ V7_UNPACK_SEQ(prev[t]) # V7_SEQ_MASK
                          \/ Lt64(prev[t], candidate'[t])
            /\ (pc[t] = "L223" /\ pc'[t] = "L187") =>
                   /\ drawn'[t] = drawn[t]
                   /\ commits' = commits
            /\ tail'[t] # tail[t] =>
                   /\ Len(tail'[t]) = V7_RB_BYTES
                   /\ site[t] = "rb"
                   /\ mine[t] # 0
                   /\ pc'[t] = "idle"]_vars

\* an uncontended call without overflow and without a spurious failure: one
\* iteration, 2 sequence bytes and the 8 bytes of the tail
C32_Witness ==
    \E t, u \in Threads :
        /\ u # t
        /\ ncalls[u] = 0
        /\ ~spurious
        /\ Returned(t)
        /\ V7_UNPACK_SEQ(Commit(t).read) # V7_SEQ_MASK
        /\ iters[t] = 1
        /\ drawn[t] = 2
        /\ Len(tail[t]) = 8

\* C33: a step of uuid7_set_rng or uuid7_init leaves g_v7_state as it is (the
\* register changes only in the successful exchange of a uuid7_gen call), and
\* a step of uuid7_gen leaves g_uuid_rng_ptr as it is unless it is the
\* exchange of _fill_random installing the built-in RNG over a null pointer.
C33_Frame ==
    [][/\ g_v7_state' # g_v7_state =>
              \E t \in Threads :
                  /\ pc[t] = "L223"
                  /\ pc'[t] = "fr_load"
                  /\ g_v7_state = prev[t]
                  /\ g_v7_state' = candidate[t]
       /\ (lastcfg' # lastcfg \/ (pc' = pc /\ ncalls' = ncalls)) =>
              g_v7_state' = g_v7_state
       /\ (pc' # pc \/ ncalls' # ncalls) =>
              \/ g_uuid_rng_ptr' = g_uuid_rng_ptr
              \/ /\ g_uuid_rng_ptr = NULL
                 /\ g_uuid_rng_ptr' = DEFAULT_RNG
                 /\ \E t \in Threads : pc[t] = "fr_cas" /\ pc'[t] = "fr_reload"]_vars

\* a call has committed with the built-in RNG installed; the last step of
\* configuration, uuid7_init(NULL), found the pointer set, and the register
\* holds the committed word
C33_Witness ==
    /\ lastcfg = <<"uuid7_init", NULL, 0>>
    /\ init_expected = DEFAULT_RNG
    /\ Len(commits) = 1
    /\ g_v7_state = commits[1].w
    /\ g_uuid_rng_ptr = DEFAULT_RNG

\* thread t's last uuid_v7 call committed a word and returned -1 from the
\* draw of its tail
TailFailed(t) == pc[t] = "idle" /\ ret[t] = -1 /\ mine[t] # 0

\* C34 as stated: in the uuid_v7 build a call whose tail draw failed has
\* written no byte of its buffer, no other call returns the (timestamp,
\* sequence) pair it committed, and that pair is a gap: the identifier of a
\* call that commits after it carries a greater pair, so it neither repeats
\* nor precedes what was allocated before.
C34_AsStated ==
    build = UUID_V7_C =>
        \A f, a \in Threads :
            TailFailed(f) =>
                /\ out[f] = FreshBuf
                /\ (a # f /\ Returned(a)) =>
                       \/ extract_ms(out[a]) # V7_UNPACK_MS(Commit(f).w)
                       \/ extract_seq(out[a]) # V7_UNPACK_SEQ(Commit(f).w)
                /\ (a # f /\ Returned(a) /\ mine[a] > mine[f]) =>
                       \/ Lt64(V7_UNPACK_MS(Commit(f).w), extract_ms(out[a]))
                       \/ /\ extract_ms(out[a]) = V7_UNPACK_MS(Commit(f).w)
                          /\ V7_UNPACK_SEQ(Commit(f).w) < extract_seq(out[a])

----------------------------------------------------------------------------
(* The packing macros on their own: V7_PACK is applied to a timestamp and a  *)
(* sequence, and the loop's candidate is then computed over the packed word  *)
(* with the clock standing in the word's millisecond.                        *)

\* timestamps at the limb boundaries below 2^52, the greatest of them, and
\* 2^52, the first whose top bit the shift drops
PackMs ==
    {U64Zero, <<0, 0, 0, 1>>, <<0, 0, 0, 15>>, <<0, 0, 0, 16>>,
     <<0, 0, 0, Limb - 1>>, <<0, 0, 1, 0>>, <<0, 0, Limb - 1, Limb - 1>>,
     ClockStart, <<0, Limb - 1, Limb - 1, Limb - 1>>, <<1, 0, 0, 0>>,
     <<15, Limb - 1, Limb - 1, Limb - 1>>, <<16, 0, 0, 0>>}

\* sequences below 2^12
PackSeqs == {0, 1, 255, 256, V7_SEQ_MASK - 1, V7_SEQ_MASK}

\* ms < 2^52
Below52(ms) == ms[1] < 16

\* candidate = V7_PACK(use_ms, rnd)
pack_word(t, ms, seq) ==
    /\ pc[t] = "idle"
    /\ use_ms' = [use_ms EXCEPT ![t] = ms]
    /\ seq12' = [seq12 EXCEPT ![t] = seq]
    /\ candidate' = [candidate EXCEPT ![t] = V7_PACK(ms, seq)]
    /\ pc' = [pc EXCEPT ![t] = "packed"]
    /\ UNCHANGED <<env, shared, ret, out, prev, site, fn, hist, cfg, lastcall,
                   counters>>

\* the packed word is prev, the clock reports its millisecond, and the
\* candidate of the iteration is computed: if(candidate <= prev) { ... }
candidate_step(t, bytes, bytes2) ==
    LET p == candidate[t]
        c == first_candidate(clamp(V7_UNPACK_MS(p), V7_UNPACK_MS(p)), p,
                             sample12(bytes))
    IN
    /\ pc[t] = "packed"
    /\ prev' = [prev EXCEPT ![t] = p]
    /\ candidate' = [candidate EXCEPT ![t] =
            IF c = "overflow" THEN overflow_candidate(p, sample12(bytes2))
            ELSE c]
    /\ pc' = [pc EXCEPT ![t] = "stepped"]
    /\ UNCHANGED <<env, shared, ret, out, use_ms, seq12, site, fn, hist, cfg,
                   lastcall, counters>>

NextPack ==
    \E t \in Threads :
        \/ \E ms \in PackMs, seq \in PackSeqs : pack_word(t, ms, seq)
        \/ \E bytes, bytes2 \in RndDraws : candidate_step(t, bytes, bytes2)

SpecPack == Init /\ [][NextPack]_vars

\* C35: for a timestamp below 2^52 and a sequence below 2^12 V7_UNPACK_MS and
\* V7_UNPACK_SEQ of V7_PACK(ms, seq) are ms and seq; the step prev + 1 is
\* taken only from a word whose sequence is not 4095, and it keeps the
\* timestamp field and adds exactly one to the sequence field.
C35_PackRoundTrip ==
    \A t \in Threads :
        /\ (pc[t] = "packed" /\ Below52(use_ms[t])) =>
               /\ V7_UNPACK_MS(candidate[t]) = use_ms[t]
               /\ V7_UNPACK_SEQ(candidate[t]) = seq12[t]
        /\ (pc[t] = "stepped" /\ candidate[t] = Inc64(prev[t])) =>
               /\ V7_UNPACK_SEQ(prev[t]) # V7_SEQ_MASK
               /\ V7_UNPACK_MS(candidate[t]) = V7_UNPACK_MS(prev[t])
               /\ V7_UNPACK_SEQ(candidate[t]) = V7_UNPACK_SEQ(prev[t]) + 1
        /\ (pc[t] = "stepped" /\ V7_UNPACK_SEQ(prev[t]) # V7_SEQ_MASK) =>
               /\ V7_UNPACK_MS(candidate[t]) = V7_UNPACK_MS(prev[t])
               /\ V7_UNPACK_SEQ(candidate[t]) > V7_UNPACK_SEQ(prev[t])

\* the greatest timestamp below 2^52 with the sequence 4094, stepped to 4095
C35_Witness ==
    \E t \in Threads :
        /\ pc[t] = "stepped"
        /\ use_ms[t] = <<15, Limb - 1, Limb - 1, Limb - 1>>
        /\ seq12[t] = V7_SEQ_MASK - 1
        /\ candidate[t] = Inc64(prev[t])
        /\ V7_UNPACK_SEQ(candidate[t]) = V7_SEQ_MASK

----------------------------------------------------------------------------
\* a process built with uuid_v7
InitV7 == InitBuilds /\ build = UUID_V7_C

\* calls that are given a buffer
NextV7 ==
    \/ \E t \in Threads :
        \/ uuid_v7(t, BUF)
        \/ StepV7(t)
    \/ clock_tick
    \/ clock_set_back

SpecV7 == InitV7 /\ [][NextV7]_vars

\* C36: in the uuid_v7 build last_id is all-zero in every reachable state and
\* differs from every identifier built, so the guard never sends a call back
\* to restart: a call that has drawn its tail is over, and a call attempts
\* the exchange only while it has not committed, so a call that returns has
\* committed exactly once.
C36_GuardNeverTriggers ==
    /\ last_id = [i \in 0..(V7_UUID_BYTES - 1) |-> 0]
    /\ Len(commits) <= started
    /\ \A t \in Threads :
        /\ out[t] # last_id
        /\ pc[t] \in {"v_now", "v_wait", "v_load", "v_cas", "v_tail"} =>
               tail[t] = <<>>
        /\ pc[t] \in {"v_now", "v_wait", "v_load", "v_cas"} => mine[t] = 0
        /\ pc[t] = "v_tail" => mine[t] # 0
        /\ Returned(t) => mine[t] \in 1..Len(commits)
        /\ \A u \in Threads : (u # t /\ mine[t] # 0) => mine[u] # mine[t]

\* both calls have returned an identifier, one commit each
C36_Witness ==
    /\ build = UUID_V7_C
    /\ Len(issued) = 2
    /\ Len(commits) = 2
    /\ \A t \in Threads : Returned(t) /\ out[t][6] \div 16 = 7

====
